---- MODULE Spec2Model ----
(***************************************************************************)
(* Character-reference decoding of the gosub HTML5 tokenizer               *)
(* (src/src/html5_parser/consume_char_refs.rs).                            *)
(*                                                                         *)
(* One run of the model is one call of consume_character_reference on an   *)
(* input stream whose triggering '&' has already been read.  Characters    *)
(* are Unicode scalar values (integers), strings are sequences of them,    *)
(* Option<T> is a sequence of length 0 (None) or 1 (Some).                 *)
(*                                                                         *)
(* The file as committed has three slips that keep it from compiling       *)
(* (line 223 `let mut captured: String::new(); None;`, line 232            *)
(* `string::new()`, line 237 `.contains(c.unwrap())`); they are read as    *)
(* `let mut captured = String::new();`, `String::new()` and                *)
(* `.contains(&c.unwrap())`.                                               *)
(***************************************************************************)
EXTENDS Integers, Sequences, FiniteSets, TLC

VARIABLES
    input,                    \* the whole stream, the triggering '&' first
    additional_allowed_char,  \* Option<char>, argument of the call
    pos,                      \* stream offset: scalars read so far
    consume_buffer,           \* the tokenizer's consume buffer
    errors,                   \* parse errors reported so far, in order
    pc,                       \* position of the call
    result,                   \* Option<String> returned (read when pc = "done")
    cp, is_hex, str_num, i,   \* locals of consume_number
    current_match, captured, s  \* locals of consume_anything_else

vars == <<input, additional_allowed_char, pos, consume_buffer, errors, pc, result,
          cp, is_hex, str_num, i, current_match, captured, s>>

----------------------------------------------------------------------------
(* Scalars the code names.                                                 *)
CHAR_TAB == 9
CHAR_LF == 10
CHAR_FF == 12
CHAR_SPACE == 32
CH_QUOTE == 34
CH_HASH == 35
CH_AMP == 38
CH_1 == 49
CH_SEMI == 59
CH_LT == 60
CH_UPPER_X == 88
CH_a == 97
CH_c == 99
CH_l == 108
CH_t == 116
CH_x == 120
CHAR_REPLACEMENT == 65533

None == <<>>
Some(v) == <<v>>

----------------------------------------------------------------------------
(* Bounds of the explored inputs.                                          *)
MaxLen == 5
MaxNumLen == 4
MaxEntryLen == 2
MaxDelta == 2
MaxZeros == 1

----------------------------------------------------------------------------
(* The input cursor (InputStream, not among the sources): read_char        *)
(* returns the scalar at the offset and advances, or None at end of input  *)
(* without moving; unread steps back one scalar; tell/seek save and        *)
(* restore the offset; look_ahead(k) peeks without moving.                 *)
stream_eof(p) == p >= Len(input)
stream_char(p) == input[p + 1]
stream_unread(p) == IF p > 0 THEN p - 1 ELSE p
look_ahead(p, k) == IF p + k < Len(input) THEN Some(input[p + k + 1]) ELSE None

(* The consume buffer and the parse-error log of the Tokenizer.            *)
clear_consume_buffer == <<>>
consume(buf, c) == Append(buf, c)
consume_string(buf, str) == buf \o str
get_consumed_str(buf) == buf
parse_error(log, msg) == Append(log, msg)

----------------------------------------------------------------------------
(* TOKEN_NAMED_CHARS: a part of the named-reference table, the keys "lt"   *)
(* and "ltcc" (one key a proper prefix of the other).                      *)
Name_lt == <<CH_l, CH_t>>
Name_ltcc == <<CH_l, CH_t, CH_c, CH_c>>
TOKEN_NAMED_CHARS == (Name_lt :> <<60>>) @@ (Name_ltcc :> <<10918>>)

(* TOKEN_REPLACEMENTS: the legacy remap of 0x80..0x9F (Windows-1252).      *)
TOKEN_REPLACEMENTS ==
    (128 :> 8364) @@ (129 :> 129)  @@ (130 :> 8218) @@ (131 :> 402)  @@
    (132 :> 8222) @@ (133 :> 8230) @@ (134 :> 8224) @@ (135 :> 8225) @@
    (136 :> 710)  @@ (137 :> 8240) @@ (138 :> 352)  @@ (139 :> 8249) @@
    (140 :> 338)  @@ (141 :> 141)  @@ (142 :> 381)  @@ (143 :> 143)  @@
    (144 :> 144)  @@ (145 :> 8216) @@ (146 :> 8217) @@ (147 :> 8220) @@
    (148 :> 8221) @@ (149 :> 8226) @@ (150 :> 8211) @@ (151 :> 8212) @@
    (152 :> 732)  @@ (153 :> 8482) @@ (154 :> 353)  @@ (155 :> 8250) @@
    (156 :> 339)  @@ (157 :> 157)  @@ (158 :> 382)  @@ (159 :> 376)

----------------------------------------------------------------------------
(* char::is_ascii_digit, char::is_ascii_hexdigit and the value of a digit. *)
is_ascii_digit(c) == c \in 48..57
is_ascii_hexdigit(c) == c \in (48..57) \cup (65..70) \cup (97..102)
DigitValue(c) ==
    IF c \in 48..57 THEN c - 48
    ELSE IF c \in 65..70 THEN c - 55
    ELSE c - 87

(* u32::from_str_radix on a string of digits of the radix.  The value is   *)
(* kept in two 16-bit limbs so that the 32-bit overflow is the code's.     *)
(* Values 2^31..2^32-1 are returned as 2^31-1: every test the code makes   *)
(* on num (lines 155-177) answers the same for all of them.                *)
\* one more digit d after the limbs p
LimbStep(p, radix, d) ==
    LET lo2 == p.lo * radix + d
        hi2 == p.hi * radix + (lo2 \div 65536)
    IN  IF ~p.ok \/ hi2 >= 65536
          THEN [ok |-> FALSE, hi |-> 0, lo |-> 0]
          ELSE [ok |-> TRUE, hi |-> hi2, lo |-> lo2 % 65536]

RECURSIVE ParseLimbs(_, _, _)
ParseLimbs(str, radix, k) ==
    IF k = 0 THEN [ok |-> TRUE, hi |-> 0, lo |-> 0]
    ELSE CHOOSE r \in {LimbStep(p, radix, DigitValue(str[k])) :
                          p \in {ParseLimbs(str, radix, k - 1)}} : TRUE

U32Sat == 32767 * 65536 + 65535

\* lines 150-153: Err(_) => 0
ParseNum(str, hex) ==
    LET p == ParseLimbs(str, IF hex THEN 16 ELSE 10, Len(str))
    IN  IF Len(str) = 0 \/ ~p.ok THEN 0
        ELSE IF p.hi >= 32768 THEN U32Sat
        ELSE p.hi * 65536 + p.lo

\* std::char::from_u32(num).unwrap_or(CHAR_REPLACEMENT)
from_u32_or_replacement(num) ==
    IF num \in 55296..57343 \/ num > 1114111 THEN CHAR_REPLACEMENT ELSE num

\* line 162: (num > 0xD800 && num < 0xDFFF) || (num > 0x10FFFFF)
InReplacedRange(num) == (num > 55296 /\ num < 57343) \/ num > 17825791

\* A slip: 0x000B is left out of the list of line 196.
in_reserved_number_range_No0B(codepoint) ==
    \/ codepoint \in 1..8
    \/ codepoint \in 14..31
    \/ codepoint \in 127..159
    \/ codepoint \in 64976..65007
    \/ \E plane \in 0..16 : codepoint \in {plane * 65536 + 65534, plane * 65536 + 65535}

\* lines 184-206
in_reserved_number_range(codepoint) ==
    \/ codepoint \in 1..8
    \/ codepoint \in 14..31
    \/ codepoint \in 127..159
    \/ codepoint \in 64976..65007
    \/ codepoint = 11
    \/ \E plane \in 0..16 : codepoint \in {plane * 65536 + 65534, plane * 65536 + 65535}

----------------------------------------------------------------------------
(* The inputs explored: every string over the scalars the named matcher    *)
(* tells apart, every '#'-string over those the numeric decoder tells      *)
(* apart, and every short string over all scalars of the model.            *)
NameAlphabet == {CH_l, CH_t, CH_c, CH_SEMI, CHAR_SPACE, CH_AMP, CH_LT}
NumAlphabet == {CH_x, CH_UPPER_X, CH_1, CH_a, CH_SEMI, CH_l}
FullAlphabet == NameAlphabet \cup NumAlphabet
                  \cup {CHAR_TAB, CHAR_LF, CHAR_FF, CH_QUOTE, CH_HASH}

SeqsUpTo(A, n) == UNION {[1..k -> A] : k \in 0..n}

NameInputs == {<<CH_AMP>> \o r : r \in SeqsUpTo(NameAlphabet, MaxLen)}
NumInputs == {<<CH_AMP, CH_HASH>> \o r : r \in SeqsUpTo(NumAlphabet, MaxNumLen)}
EntryInputs == {<<CH_AMP>> \o r : r \in SeqsUpTo(FullAlphabet, MaxEntryLen)}

\* Numeric references written out from their values: the values within
\* MaxDelta of the ends of the ranges the code tests, in decimal and in
\* hexadecimal of either case, after up to MaxZeros leading zeros; and digit
\* strings at and over the end of u32.
RangeEnds ==
    {0, 9, 11, 14, 32, 127, 128, 160, 55296, 57343, 64976, 65007, 65534,
     65536, 131070, 1114110, 1114112, 17825791, U32Sat - MaxDelta - 1}
      \cup {plane * 65536 + 65534 : plane \in 0..16}
ValuesNearEnds ==
    {v \in UNION {(e - MaxDelta)..(e + MaxDelta) : e \in RangeEnds} : v >= 0}

DigitChar(d, upper) == IF d < 10 THEN 48 + d ELSE IF upper THEN 55 + d ELSE 87 + d
RECURSIVE ToDigits(_, _, _)
ToDigits(n, radix, upper) ==
    IF n < radix THEN <<DigitChar(n, upper)>>
    ELSE ToDigits(n \div radix, radix, upper) \o <<DigitChar(n % radix, upper)>>
Zeros(z) == [k \in 1..z |-> 48]

\* "80000000", "ffffffff", "100000000"
HugeHexDigits ==
    {<<56, 48, 48, 48, 48, 48, 48, 48>>,
     <<102, 102, 102, 102, 102, 102, 102, 102>>,
     <<49, 48, 48, 48, 48, 48, 48, 48, 48>>}
\* "4294967295", "4294967296", "10000000000"
HugeDecDigits ==
    {<<52, 50, 57, 52, 57, 54, 55, 50, 57, 53>>,
     <<52, 50, 57, 52, 57, 54, 55, 50, 57, 54>>,
     <<49, 48, 48, 48, 48, 48, 48, 48, 48, 48, 48>>}

ValueInputs ==
    UNION {
        {<<CH_AMP, CH_HASH>> \o Zeros(z) \o d \o <<CH_SEMI>> :
            d \in {ToDigits(v, 10, FALSE) : v \in ValuesNearEnds} \cup HugeDecDigits}
        \cup
        {<<CH_AMP, CH_HASH, CH_x>> \o Zeros(z) \o d \o <<CH_SEMI>> :
            d \in {ToDigits(v, 16, FALSE) : v \in ValuesNearEnds} \cup HugeHexDigits}
        \cup
        {<<CH_AMP, CH_HASH, CH_UPPER_X>> \o Zeros(z) \o d \o <<CH_SEMI>> :
            d \in {ToDigits(v, 16, TRUE) : v \in ValuesNearEnds}}
        : z \in 0..MaxZeros}

\* The calls explored: <<input, additional_allowed_char>>.  The additional
\* character is read only when the first scalar is tested (lines 37-41), so
\* the long name strings are run without one.
Calls ==
    ((NameInputs \cup ValueInputs) \X {None})
      \cup ((NumInputs \cup EntryInputs) \X {None, Some(CH_QUOTE)})

\* The offset on entry: the triggering '&' has been read.
EntryPos == 1

Init ==
    /\ \E call \in Calls :
           /\ input = call[1]
           /\ additional_allowed_char = call[2]
    /\ pos = EntryPos
    /\ consume_buffer \in {<<>>, <<CH_a>>}   \* whatever an earlier token left
    /\ errors = <<>>
    /\ pc = "start"
    /\ result = None
    /\ cp = 0
    /\ is_hex = FALSE
    /\ str_num = <<>>
    /\ i = 0
    /\ current_match = None
    /\ captured = <<>>
    /\ s = <<>>

NumberLocals == <<cp, is_hex, str_num, i>>
NameLocals == <<current_match, captured, s>>

----------------------------------------------------------------------------
(* consume_character_reference, lines 12-49 and 58-59: up to the call of   *)
(* consume_number or consume_anything_else.                                *)

\* lines 27-39
DisallowedChars ==
    {CHAR_TAB, CHAR_LF, CHAR_FF, CHAR_SPACE, CH_LT, CH_AMP}
      \cup {additional_allowed_char[k] : k \in 1..Len(additional_allowed_char)}

\* A slip: the disallowed scalar is not put back.
DisallowedRewind_NoUnread(p) == p

\* line 42: the offset after a disallowed scalar was read at offset p - 1
DisallowedRewind(p) == stream_unread(p)

consume_character_reference ==
    /\ pc = "start"
    /\ UNCHANGED <<input, additional_allowed_char, errors, NumberLocals, NameLocals>>
    /\ IF stream_eof(pos)
         THEN \* lines 19-24
              /\ consume_buffer' = clear_consume_buffer
              /\ result' = None
              /\ pc' = "done"
              /\ pos' = pos
         ELSE LET c == stream_char(pos) IN
              IF c \in DisallowedChars
                THEN \* lines 41-44
                     /\ consume_buffer' = clear_consume_buffer
                     /\ pos' = DisallowedRewind(pos + 1)
                     /\ result' = None
                     /\ pc' = "done"
              ELSE IF c = CH_HASH
                THEN \* lines 47-50
                     /\ consume_buffer' = consume(consume(clear_consume_buffer, CH_AMP), c)
                     /\ pos' = pos + 1
                     /\ result' = result
                     /\ pc' = "consume_number"
                ELSE \* lines 58-60
                     /\ consume_buffer' = clear_consume_buffer
                     /\ pos' = stream_unread(pos + 1)
                     /\ result' = result
                     /\ pc' = "anything_first"

----------------------------------------------------------------------------
(* consume_number, lines 69-180.                                           *)

\* lines 70-97: the checkpoint and the optional 'x'
consume_number_begin ==
    /\ pc = "consume_number"
    /\ UNCHANGED <<input, additional_allowed_char, errors, result, NameLocals>>
    /\ str_num' = <<>>
    /\ i' = 0
    /\ cp' = pos
    /\ LET hex == look_ahead(pos, 0) IN
       IF hex = None
         THEN \* lines 79-81
              /\ is_hex' = FALSE
              /\ UNCHANGED <<pos, consume_buffer>>
              /\ pc' = "number_err"
       ELSE IF hex[1] \in {CH_x, CH_UPPER_X}
         THEN \* lines 84-97
              /\ is_hex' = TRUE
              /\ IF stream_eof(pos)
                   THEN /\ pos' = pos
                        /\ consume_buffer' = consume_buffer
                        /\ pc' = "number_err"
                   ELSE /\ pos' = pos + 1
                        /\ consume_buffer' = consume(consume_buffer, stream_char(pos))
                        /\ pc' = "digit_loop"
         ELSE /\ is_hex' = FALSE
              /\ UNCHANGED <<pos, consume_buffer>>
              /\ pc' = "digit_loop"

\* A slip: the break of line 117 is missing.
AfterNonDigit_NoBreak == "digit_loop"

\* lines 116-117: where a scalar that is no digit sends the loop
AfterNonDigit == "number_tail"

\* lines 100-121: one iteration of the digit loop
digit_loop ==
    /\ pc = "digit_loop"
    /\ UNCHANGED <<input, additional_allowed_char, errors, result, cp, is_hex, NameLocals>>
    /\ IF stream_eof(pos)
         THEN \* lines 103-106
              /\ pos' = cp
              /\ pc' = "number_err"
              /\ UNCHANGED <<consume_buffer, str_num, i>>
         ELSE LET c == stream_char(pos) IN
              IF (is_hex /\ is_ascii_hexdigit(c)) \/ (~is_hex /\ is_ascii_digit(c))
                THEN /\ str_num' = Append(str_num, c)
                     /\ consume_buffer' = consume(consume_buffer, c)
                     /\ i' = i + 1
                     /\ pos' = pos + 1
                     /\ pc' = "digit_loop"
                ELSE /\ pos' = stream_unread(pos + 1)
                     /\ pc' = AfterNonDigit
                     /\ UNCHANGED <<consume_buffer, str_num, i>>

\* lines 91, 104, 127, 135, 144: self.stream.seek(cp)
SeekCheckpoint(checkpoint) == checkpoint

\* A slip: the buffer is not cleared before the scalar is written (line 176).
NumberOutput_NoClear(num) ==
    IF num \in DOMAIN TOKEN_REPLACEMENTS
      THEN [buf |-> consume(clear_consume_buffer, TOKEN_REPLACEMENTS[num]),
            err |-> errors]
    ELSE IF InReplacedRange(num)
      THEN [buf |-> consume(clear_consume_buffer, CHAR_REPLACEMENT),
            err |-> parse_error(errors, "within reserved codepoint range, but replaced")]
    ELSE IF in_reserved_number_range(num)
      THEN [buf |-> clear_consume_buffer,
            err |-> parse_error(errors, "within reserved codepoint range, ignored")]
    ELSE [buf |-> consume(consume_buffer, from_u32_or_replacement(num)),
          err |-> errors]

\* lines 148-179: the buffer and the errors once the digits and ';' are read
NumberOutput(num) ==
    IF num \in DOMAIN TOKEN_REPLACEMENTS
      THEN [buf |-> consume(clear_consume_buffer, TOKEN_REPLACEMENTS[num]),
            err |-> errors]
    ELSE IF InReplacedRange(num)
      THEN [buf |-> consume(clear_consume_buffer, CHAR_REPLACEMENT),
            err |-> parse_error(errors, "within reserved codepoint range, but replaced")]
    ELSE IF in_reserved_number_range(num)
      THEN [buf |-> clear_consume_buffer,
            err |-> parse_error(errors, "within reserved codepoint range, ignored")]
    ELSE [buf |-> consume(clear_consume_buffer, from_u32_or_replacement(num)),
          err |-> errors]

\* lines 123-180: the ';', the digit count and the conversion
number_tail ==
    /\ pc = "number_tail"
    /\ UNCHANGED <<input, additional_allowed_char, result, NumberLocals, NameLocals>>
    /\ IF stream_eof(pos)
         THEN \* lines 126-129
              /\ pos' = SeekCheckpoint(cp)
              /\ pc' = "number_err"
              /\ UNCHANGED <<consume_buffer, errors>>
         ELSE LET c == stream_char(pos) IN
              IF c # CH_SEMI
                THEN \* lines 133-137
                     /\ errors' = parse_error(errors, "expected a ';'")
                     /\ pos' = SeekCheckpoint(cp)
                     /\ pc' = "number_err"
                     /\ UNCHANGED consume_buffer
              ELSE IF i = 0
                THEN \* lines 139-146
                     /\ consume_buffer' = consume(consume_buffer, c)
                     /\ errors' = parse_error(errors, "didn't expect #;")
                     /\ pos' = SeekCheckpoint(cp)
                     /\ pc' = "number_err"
                ELSE LET out == NumberOutput(ParseNum(str_num, is_hex)) IN
                     /\ consume_buffer' = out.buf
                     /\ errors' = out.err
                     /\ pos' = pos + 1
                     /\ pc' = "number_ok"

\* A slip: the unread of line 51 is missing.
NumberFailRewind_NoUnread(p) == p

\* line 51: the offset after consume_number failed at offset p
NumberFailRewind(p) == stream_unread(p)

\* lines 50-55: back in consume_character_reference
number_return ==
    /\ pc \in {"number_ok", "number_err"}
    /\ UNCHANGED <<input, additional_allowed_char, consume_buffer, errors,
                   NumberLocals, NameLocals>>
    /\ IF pc = "number_err"
         THEN /\ pos' = NumberFailRewind(pos)
              /\ result' = None
         ELSE /\ pos' = pos
              /\ result' = Some(get_consumed_str(consume_buffer))
    /\ pc' = "done"

----------------------------------------------------------------------------
(* consume_anything_else, lines 209-324.  Every iteration of its loop      *)
(* reads two scalars: anything_first is lines 228-249, anything_second is  *)
(* lines 262-322.  Indexing TOKEN_NAMED_CHARS with a string that is no key *)
(* panics (pc = "panic").                                                  *)

\* line 237
FirstTerminators == {CHAR_SPACE, CH_AMP, CH_LT}
\* line 264
SecondTerminators == {CH_SEMI, CHAR_SPACE, CH_AMP, CH_LT}

anything_first ==
    /\ pc = "anything_first"
    /\ UNCHANGED <<input, additional_allowed_char, errors, result, NumberLocals, s>>
    /\ IF stream_eof(pos)
         THEN \* lines 229-233
              /\ consume_buffer' = consume_string(consume_buffer, captured)
              /\ pc' = "anything_ok"
              /\ UNCHANGED <<pos, current_match, captured>>
         ELSE LET c == stream_char(pos)
                  captured2 == Append(captured, c)
              IN  /\ pos' = pos + 1
                  /\ captured' = captured2
                  /\ IF c \in FirstTerminators /\ current_match # None
                       THEN \* lines 238-244
                            /\ UNCHANGED current_match
                            /\ IF current_match[1] \in DOMAIN TOKEN_NAMED_CHARS
                                 THEN /\ consume_buffer' =
                                           consume(consume_string(consume_buffer,
                                               TOKEN_NAMED_CHARS[current_match[1]] \o s), c)
                                      /\ pc' = "anything_ok"
                                 ELSE /\ consume_buffer' = consume_buffer
                                      /\ pc' = "panic"
                       ELSE \* lines 247-249
                            /\ current_match' =
                                   IF captured2 \in DOMAIN TOKEN_NAMED_CHARS
                                     THEN Some(captured2) ELSE current_match
                            /\ consume_buffer' = consume_buffer
                            /\ pc' = "anything_second"

\* line 302: what current_match becomes when current_match + s is a key
NewMatch(value, pending) == Some(pending)

anything_second ==
    /\ pc = "anything_second"
    /\ UNCHANGED <<input, additional_allowed_char, errors, result, NumberLocals, captured>>
    /\ IF ~stream_eof(pos)
         THEN LET c == stream_char(pos) IN
              /\ pos' = pos + 1
              /\ IF c \in SecondTerminators
                   THEN IF current_match = None
                          THEN \* lines 265-268
                               /\ pc' = "anything_err"
                               /\ UNCHANGED <<consume_buffer, current_match, s>>
                          ELSE \* lines 270-278
                               LET s2 == IF s # <<>> THEN Append(s, c) ELSE s IN
                               /\ s' = s2
                               /\ UNCHANGED current_match
                               /\ IF current_match[1] \in DOMAIN TOKEN_NAMED_CHARS
                                    THEN /\ consume_buffer' =
                                              consume_string(consume_buffer,
                                                  TOKEN_NAMED_CHARS[current_match[1]] \o s2)
                                         /\ pc' = "anything_ok"
                                    ELSE /\ consume_buffer' = consume_buffer
                                         /\ pc' = "panic"
                   ELSE \* lines 281-304
                        LET s2 == Append(s, c)
                            value == (IF current_match = None THEN <<>> ELSE current_match[1]) \o s2
                        IN  /\ IF value \in DOMAIN TOKEN_NAMED_CHARS
                                 THEN /\ current_match' = NewMatch(value, s2)
                                      /\ s' = <<>>
                                 ELSE /\ current_match' = current_match
                                      /\ s' = s2
                            /\ consume_buffer' = consume_buffer
                            /\ pc' = "anything_first"
         ELSE \* lines 314-322
              /\ consume_buffer' =
                     consume_string(
                         IF current_match = None
                           THEN consume(consume_buffer, CH_AMP)
                           ELSE consume_string(consume_buffer, current_match[1]),
                         s)
              /\ pc' = "anything_ok"
              /\ UNCHANGED <<pos, current_match, s>>

\* line 61: the offset after consume_anything_else failed at offset p
AnythingFailRewind(p) == stream_unread(p)

\* lines 60-65: back in consume_character_reference
anything_return ==
    /\ pc \in {"anything_ok", "anything_err"}
    /\ UNCHANGED <<input, additional_allowed_char, consume_buffer, errors,
                   NumberLocals, NameLocals>>
    /\ IF pc = "anything_err"
         THEN /\ pos' = AnythingFailRewind(pos)
              /\ result' = None
         ELSE /\ pos' = pos
              /\ result' = Some(get_consumed_str(consume_buffer))
    /\ pc' = "done"

----------------------------------------------------------------------------
Next ==
    \/ consume_character_reference
    \/ consume_number_begin
    \/ digit_loop
    \/ number_tail
    \/ number_return
    \/ anything_first
    \/ anything_second
    \/ anything_return

Spec == Init /\ [][Next]_vars

\* The call is single-threaded and runs to its end: no step waits.
FairSpec == Spec /\ WF_vars(Next)

Terminated == pc \in {"done", "panic"}

----------------------------------------------------------------------------
(* What the claims say of an input, stated on the input alone.             *)

Keys == DOMAIN TOKEN_NAMED_CHARS
\* the text after the triggering '&'
Text == SubSeq(input, EntryPos + 1, Len(input))
IsPrefix(a, b) == Len(a) <= Len(b) /\ SubSeq(b, 1, Len(a)) = a

\* '&' is followed by '#'
IsNumeric == Len(Text) >= 1 /\ Text[1] = CH_HASH
HasHexPrefix == Len(Text) >= 2 /\ Text[2] \in {CH_x, CH_UPPER_X}
\* index in Text of the first digit, and of the first scalar after the digit run
DigitStart == IF HasHexPrefix THEN 3 ELSE 2
IsDigitOfMode(c) ==
    IF HasHexPrefix
      THEN c \in {48, 49, 50, 51, 52, 53, 54, 55, 56, 57,
                  65, 66, 67, 68, 69, 70, 97, 98, 99, 100, 101, 102}
      ELSE c \in {48, 49, 50, 51, 52, 53, 54, 55, 56, 57}
DigitEnd ==
    CHOOSE k \in DigitStart..(Len(Text) + 1) :
        /\ \A j \in DigitStart..(k - 1) : IsDigitOfMode(Text[j])
        /\ k = Len(Text) + 1 \/ ~IsDigitOfMode(Text[k])
\* zero digits, end of input before ';', or another scalar than ';' after the digits
MalformedNumeric ==
    /\ IsNumeric
    /\ \/ DigitEnd = DigitStart
       \/ DigitEnd = Len(Text) + 1
       \/ Text[DigitEnd] # CH_SEMI

Failed == pc = "done" /\ result = None
CursorAfterAmp == pos = EntryPos

----------------------------------------------------------------------------
(* C1: when '&' is followed by '#' and the number is malformed (no digit,  *)
(* no ';' after the digits, or end of input before the ';', with or        *)
(* without x/X), the call returns None and the cursor is right after the   *)
(* '&', however many scalars were read.                                    *)
C1_NumericFailureRewinds ==
    (pc = "done" /\ MalformedNumeric) => (result = None /\ CursorAfterAmp)

\* a hexadecimal reference of two digits followed by a scalar that is not ';'
C1_Witness ==
    /\ pc = "done"
    /\ MalformedNumeric
    /\ HasHexPrefix
    /\ DigitEnd = DigitStart + 2
    /\ DigitEnd <= Len(Text)
    /\ Failed
    /\ CursorAfterAmp

----------------------------------------------------------------------------
(* C4: when the call starts at end of input, or before a tab, line feed,   *)
(* form feed, space, '<', '&' or the additional character, it returns None *)
(* and the cursor is where it was on entry.                                *)
StartsDisallowed ==
    \/ Len(Text) = 0
    \/ Text[1] \in {CHAR_TAB, CHAR_LF, CHAR_FF, CHAR_SPACE, CH_LT, CH_AMP}
    \/ additional_allowed_char = Some(Text[1])

C4_DisallowedStartConsumesNothing ==
    (pc = "done" /\ StartsDisallowed) => (result = None /\ pos = EntryPos)

\* the additional character is the one met
C4_Witness ==
    /\ pc = "done"
    /\ Len(Text) >= 1
    /\ additional_allowed_char = Some(Text[1])
    /\ Failed
    /\ pos = EntryPos

----------------------------------------------------------------------------
(* C6: every call ends.  Each step of the call lowers a measure that is    *)
(* never negative; an iteration of the digit loop or of the named loop     *)
(* that stays in the loop moves the cursor forward by one scalar or more,  *)
(* and no loop goes on at end of input; so the call reaches its end (a     *)
(* return or, see C5, a panic).                                            *)
Rank ==
    CASE pc = "start" -> 5
      [] pc = "consume_number" -> 4
      [] pc \in {"digit_loop", "anything_first", "anything_second"} -> 3
      [] pc = "number_tail" -> 2
      [] pc \in {"number_ok", "number_err", "anything_ok", "anything_err"} -> 1
      [] OTHER -> 0
Measure == Rank * (Len(input) + 1) + (Len(input) - pos)
InLoop == pc \in {"digit_loop", "anything_first", "anything_second"}

C6_StepsDescend ==
    [][/\ Measure' < Measure
       /\ Measure' >= 0
       /\ (InLoop /\ InLoop') => pos' >= pos + 1
       /\ (InLoop /\ stream_eof(pos)) => ~InLoop']_vars

C6_Terminates == C6_StepsDescend /\ <>Terminated

\* a call that went three times round the digit loop and ended
C6_Witness == pc = "done" /\ i >= 3

----------------------------------------------------------------------------
(* C2: when the text after '&' starts with neither '#' nor a disallowed    *)
(* character and no prefix of it is a key of the table, the call returns   *)
(* None and the cursor is right after the '&', whether the scan stopped at *)
(* a terminator or at end of input.                                        *)
NoKeyPrefix == \A k \in 1..Len(Text) : SubSeq(Text, 1, k) \notin Keys

C2_UnknownNameFailsAndRewinds ==
    (Terminated /\ ~StartsDisallowed /\ ~IsNumeric /\ NoKeyPrefix)
        => (Failed /\ CursorAfterAmp)

----------------------------------------------------------------------------
(* C3: whenever the call returns None, the consume buffer is empty.        *)
C3_FailureLeavesBufferEmpty == Failed => consume_buffer = <<>>

----------------------------------------------------------------------------
(* C5: no call panics: every table index is on an existing key.            *)
C5_NoPanic == pc # "panic"

----------------------------------------------------------------------------
(* C7: for every key K of the table, the text K followed by ';' decodes to *)
(* exactly table[K], and the cursor ends right after the ';'.              *)
C7_KeyThenSemicolonDecodes ==
    \A K \in Keys :
        (Terminated /\ Text = K \o <<CH_SEMI>>)
            => /\ pc = "done"
               /\ result = Some(TOKEN_NAMED_CHARS[K])
               /\ pos = Len(input)

----------------------------------------------------------------------------
(* C8: for every key K, the text K followed by a space, '&' or '<' decodes *)
(* to exactly table[K], and the cursor ends before that terminator.        *)
C8_KeyThenOtherTerminatorDecodes ==
    \A K \in Keys : \A term \in {CHAR_SPACE, CH_AMP, CH_LT} :
        (Terminated /\ Text = K \o <<term>>)
            => /\ pc = "done"
               /\ result = Some(TOKEN_NAMED_CHARS[K])
               /\ pos = Len(input) - 1

----------------------------------------------------------------------------
(* C9: when a key K and a longer key K2 that starts with K are both in the *)
(* table, the text K2 followed by ';' decodes to table[K2].                *)
C9_LongestMatchWins ==
    \A K \in Keys : \A K2 \in Keys :
        (/\ Terminated
         /\ IsPrefix(K, K2) /\ K # K2
         /\ Text = K2 \o <<CH_SEMI>>)
            => (pc = "done" /\ result = Some(TOKEN_NAMED_CHARS[K2]))

----------------------------------------------------------------------------
(* C10: when the text is a key K, then a non-empty run R of scalars that   *)
(* are no terminators such that no longer prefix of K R is a key, then a   *)
(* terminator, the call succeeds and its output starts with table[K]       *)
(* followed by R.                                                          *)
Terminators == {CH_SEMI, CHAR_SPACE, CH_AMP, CH_LT}

C10_ShorterKeyPlusRemainder ==
    \A K \in Keys : \A n \in 1..Len(Text) :
        (/\ Terminated
         /\ IsPrefix(K, Text)
         /\ Len(K) + n + 1 <= Len(Text)
         /\ \A j \in (Len(K) + 1)..(Len(K) + n) : Text[j] \notin Terminators
         /\ Text[Len(K) + n + 1] \in Terminators
         /\ \A j \in (Len(K) + 1)..(Len(K) + n) : SubSeq(Text, 1, j) \notin Keys)
            => /\ pc = "done"
               /\ result # None
               /\ IsPrefix(TOKEN_NAMED_CHARS[K] \o SubSeq(Text, Len(K) + 1, Len(K) + n),
                           result[1])

----------------------------------------------------------------------------
(* C11: when the text after '&' is exactly a key of the table and the      *)
(* input ends there, the call returns None.                                *)
C11_KeyAtEndOfInputFails ==
    (Terminated /\ Text \in Keys) => Failed

----------------------------------------------------------------------------
(* What the claims say of a well-formed numeric reference "#D;" or         *)
(* "#xD;", stated on the input alone.                                      *)
WellFormedNumeric ==
    /\ IsNumeric
    /\ DigitEnd > DigitStart
    /\ DigitEnd <= Len(Text)
    /\ Text[DigitEnd] = CH_SEMI
Digits == SubSeq(Text, DigitStart, DigitEnd - 1)
Radix == IF HasHexPrefix THEN 16 ELSE 10
RefDigit(c) == IF c <= 57 THEN c - 48 ELSE IF c <= 70 THEN c - 55 ELSE c - 87

\* The integer the digits write, or 1114112 (0x110000) when it is that or more.
RECURSIVE CappedValue(_, _)
CappedValue(d, k) ==
    IF k = 0 THEN 0
    ELSE CHOOSE r \in {IF v * Radix + RefDigit(d[k]) > 1114112
                         THEN 1114112 ELSE v * Radix + RefDigit(d[k]) :
                          v \in {CappedValue(d, k - 1)}} : TRUE
IntegerValue == CappedValue(Digits, Len(Digits))

\* The digits without their leading zeros, and whether they write more than
\* 2^32 - 1 ("ffffffff", "4294967295").
RECURSIVE Significant(_)
Significant(d) == IF d # <<>> /\ d[1] = 48 THEN Significant(Tail(d)) ELSE d
RECURSIVE LexGreater(_, _)
LexGreater(a, b) ==
    /\ a # <<>>
    /\ \/ a[1] > b[1]
       \/ a[1] = b[1] /\ LexGreater(Tail(a), Tail(b))
OverflowsU32 ==
    LET sig == Significant(Digits) IN
    IF HasHexPrefix THEN Len(sig) > 8
    ELSE \/ Len(sig) > 10
         \/ Len(sig) = 10 /\ LexGreater(sig, <<52, 50, 57, 52, 57, 54, 55, 50, 57, 53>>)

IsSurrogateOrTooBig(n) == n \in 55296..57343 \/ n > 1114111
IsNoncharacter(n) ==
    \/ n \in 1..8
    \/ n = 11
    \/ n \in 14..31
    \/ n = 127
    \/ n \in 64976..65007
    \/ n % 65536 \in {65534, 65535}
\* The text a reference of value n stands for: remapped, replaced, dropped or itself.
ReferenceResult(n) ==
    IF n \in 128..159 THEN <<TOKEN_REPLACEMENTS[n]>>
    ELSE IF IsSurrogateOrTooBig(n) THEN <<CHAR_REPLACEMENT>>
    ELSE IF IsNoncharacter(n) THEN <<>>
    ELSE <<n>>

CursorAfterSemicolon == pos = EntryPos + DigitEnd

----------------------------------------------------------------------------
----------------------------------------------------------------------------
Reported(msg) == \E k \in 1..Len(errors) : errors[k] = msg

(* C13: a numeric reference whose integer is a surrogate (0xD800..0xDFFF,  *)
(* both ends included) or more than 0x10FFFF decodes to exactly the        *)
(* replacement character, and the invalid-codepoint parse error is         *)
(* reported.                                                               *)
C13_InvalidCodepointReplacedAndReported ==
    (Terminated /\ WellFormedNumeric /\ IsSurrogateOrTooBig(IntegerValue))
        => /\ pc = "done"
           /\ result = Some(<<CHAR_REPLACEMENT>>)
           /\ Reported("within reserved codepoint range, but replaced")

----------------------------------------------------------------------------
----------------------------------------------------------------------------
(* C15: a numeric reference that writes 0, with any number of leading      *)
(* zeros, decodes to exactly the replacement character and a parse error   *)
(* is reported.                                                            *)
C15_ZeroReplacedAndReported ==
    (Terminated /\ WellFormedNumeric /\ Significant(Digits) = <<>>)
        => /\ pc = "done"
           /\ result = Some(<<CHAR_REPLACEMENT>>)
           /\ errors # <<>>

----------------------------------------------------------------------------
(* C16: when the text is a key K, then a non-empty run R of scalars that   *)
(* extend K to no longer key, then ';', the call returns table[K] followed *)
(* by R and the ';'.                                                       *)
C16_SemicolonAfterRemainderIsOutput ==
    \A K \in Keys : \A n \in 1..Len(Text) :
        (/\ Terminated
         /\ IsPrefix(K, Text)
         /\ Len(Text) = Len(K) + n + 1
         /\ \A j \in (Len(K) + 1)..(Len(K) + n) : Text[j] \notin Terminators
         /\ Text[Len(Text)] = CH_SEMI
         /\ \A j \in (Len(K) + 1)..(Len(K) + n) : SubSeq(Text, 1, j) \notin Keys)
            => /\ pc = "done"
               /\ result = Some(TOKEN_NAMED_CHARS[K]
                                  \o SubSeq(Text, Len(K) + 1, Len(K) + n)
                                  \o <<CH_SEMI>>)

----------------------------------------------------------------------------
(* C17: every numeric decode that fails has reported a parse error: with   *)
(* no digit, with another scalar than ';' after the digits, and at end of  *)
(* input before the ';'.                                                   *)
C17_NumericFailureReported ==
    (pc = "done" /\ MalformedNumeric) => errors # <<>>

----------------------------------------------------------------------------
(* C18: when the named matcher meets end of input with current_match       *)
(* present, it succeeds and the output is table[current_match] followed by *)
(* the pending scalars s.                                                  *)
C18_EndOfInputOutputsMappedText ==
    [][(/\ pc \in {"anything_first", "anything_second"}
        /\ stream_eof(pos)
        /\ current_match # None)
          => /\ pc' = "anything_ok"
             /\ current_match[1] \in Keys
             /\ consume_buffer' = TOKEN_NAMED_CHARS[current_match[1]] \o s]_vars

----------------------------------------------------------------------------
(* C19: within one call current_match only grows: once it holds a key,     *)
(* every later assignment gives it a strictly longer string that starts    *)
(* with the one it held.                                                   *)
C19_BestMatchOnlyGrows ==
    [][(current_match # None /\ current_match' # current_match)
          => /\ current_match' # None
             /\ Len(current_match'[1]) > Len(current_match[1])
             /\ IsPrefix(current_match[1], current_match'[1])]_vars

----------------------------------------------------------------------------
(* C20: in every state of the named matcher, current_match, when present,  *)
(* is a key of the table and a prefix of the scalars read since the '&'.   *)
ReadSinceAmp == SubSeq(input, EntryPos + 1, pos)

C20_BestMatchIsKeyAndPrefix ==
    (pc \in {"anything_first", "anything_second"} /\ current_match # None)
        => /\ current_match[1] \in Keys
           /\ IsPrefix(current_match[1], ReadSinceAmp)

====
